---- MODULE Spec2Model ----
(***************************************************************************)
(* Model of gocb's view/spatial query execution (bucket_query.go):         *)
(* Bucket.executeViewQuery with its two facades, and the viewResults row   *)
(* iterator (Next, NextBytes, Close, One, TotalRows).                      *)
(*                                                                         *)
(* Go slices are 0-based: the Go element rows[i] is rows[i + 1] here.      *)
(***************************************************************************)
EXTENDS Integers, Sequences, FiniteSets, TLC

VARIABLES
    pc,      \* per caller slot: "start" before its query is executed, "returned" after
    iter,    \* per caller slot: the ViewResults the execution returned (or NilIter)
    call,    \* per caller slot: the execution: what it returned and what it did
    hist,    \* per caller slot: what the iterator has handed out since it was returned
    lastOp   \* the last iterator call and what it returned

vars == <<pc, iter, call, hist, lastOp>>

-----------------------------------------------------------------------------
(* Bounds *)

\* longest "rows" array of a response envelope
MaxRows == 2

\* largest "total_rows" a response envelope declares
MaxTotalRows == 1

-----------------------------------------------------------------------------
(* Values *)

\* a nil error
NoErr == [kind |-> "nil"]

\* a nil ViewResults
NilIter == [nil |-> TRUE]

\* a nil []byte
NilBytes == "<nil>"

\* a target that no decode has written
NoVal == [none |-> TRUE]

\* ErrNoResults, the error One returns when there is no row
ErrNoResults == [kind |-> "ErrNoResults"]

\* errors of the collaborators executeViewQuery calls
ErrGetViewEp == [kind |-> "getViewEp"]
ErrNewRequest == [kind |-> "http.NewRequest"]
ErrDoHttp == [kind |-> "doHttpWithTimeout"]
ErrEnvelopeDecode == [kind |-> "json.Decoder.Decode"]
ErrGetInfo == [kind |-> "getInfo"]

\* the raw row payloads (json.RawMessage) a response can carry: a number and a string
RowPayloads == {"1", "\"a\""}

\* the target types a caller passes as valuePtr: *int, *string, *interface{}
Shapes == {"int", "string", "any"}

\* all "rows" arrays up to MaxRows entries
RowSeqs == UNION {[1..n -> RowPayloads] : n \in 0..MaxRows}

\* HTTP status codes the server answers with
StatusCodes == {200, 404, 500}

\* (error, reason) pairs of a response envelope
ErrorFields == {<<"", "">>, <<"bad_request", "missing parameter">>, <<"", "unused reason">>}

\* type viewResponse: the decoded envelopes
ViewResponses ==
    {[TotalRows |-> t, Rows |-> rs, Error |-> e[1], Reason |-> e[2]] :
        t \in 0..MaxTotalRows, rs \in RowSeqs, e \in ErrorFields}

\* the zero viewResponse
ZeroViewResponse == [TotalRows |-> 0, Rows |-> <<>>, Error |-> "", Reason |-> ""]

\* type viewError
viewError(message, reason) == [kind |-> "viewError", Message |-> message, Reason |-> reason]

-----------------------------------------------------------------------------
(* json.Unmarshal of one row into the caller's target *)

\* the JSON kind of a raw payload
JSONKind(row) == IF row = "1" THEN "number" ELSE "string"

\* the Go value a raw payload decodes to
JSONValue(row, shape) ==
    IF JSONKind(row) = "number"
    THEN (IF shape = "int" THEN [int |-> 1] ELSE [float64 |-> 1])
    ELSE [string |-> "a"]

\* json.Unmarshal(row, valuePtr): a number fits *int and *interface{}, a string
\* fits *string and *interface{}; anything else is an UnmarshalTypeError
Unmarshal(row, shape) ==
    IF shape = "any" \/ (shape = "int" /\ JSONKind(row) = "number")
                     \/ (shape = "string" /\ JSONKind(row) = "string")
    THEN [err |-> NoErr, val |-> JSONValue(row, shape)]
    ELSE [err |-> [kind |-> "UnmarshalTypeError", Value |-> JSONKind(row), Type |-> shape],
          val |-> NoVal]

-----------------------------------------------------------------------------
(* type viewResults: index, rows, totalRows, err *)

\* NextBytes that stops one row early
NextBytes_skipLast(r) ==
    IF r.err # NoErr
    THEN [r |-> r, ret |-> NilBytes]
    ELSE IF r.index + 2 >= Len(r.rows)
    THEN [r |-> r, ret |-> NilBytes]
    ELSE [r |-> [r EXCEPT !.index = r.index + 1], ret |-> r.rows[(r.index + 1) + 1]]

\* NextBytes without the check of the terminal error
NextBytes_noErrCheck(r) ==
    IF r.index + 1 >= Len(r.rows)
    THEN [r |-> r, ret |-> NilBytes]
    ELSE [r |-> [r EXCEPT !.index = r.index + 1], ret |-> r.rows[(r.index + 1) + 1]]

\* NextBytes that returns the next row without moving the position
NextBytes_noAdvance(r) ==
    IF r.err # NoErr
    THEN [r |-> r, ret |-> NilBytes]
    ELSE IF r.index + 1 >= Len(r.rows)
    THEN [r |-> r, ret |-> NilBytes]
    ELSE [r |-> r, ret |-> r.rows[(r.index + 1) + 1]]

\* NextBytes that records the end of the rows as the terminal error
NextBytes_errAtEnd(r) ==
    IF r.err # NoErr
    THEN [r |-> r, ret |-> NilBytes]
    ELSE IF r.index + 1 >= Len(r.rows)
    THEN [r |-> [r EXCEPT !.err = ErrNoResults], ret |-> NilBytes]
    ELSE [r |-> [r EXCEPT !.index = r.index + 1], ret |-> r.rows[(r.index + 1) + 1]]

\* func (r *viewResults) NextBytes() []byte
NextBytes(r) ==
    IF r.err # NoErr
    THEN [r |-> r, ret |-> NilBytes]
    ELSE IF r.index + 1 >= Len(r.rows)
    THEN [r |-> r, ret |-> NilBytes]
    ELSE [r |-> [r EXCEPT !.index = r.index + 1], ret |-> r.rows[(r.index + 1) + 1]]

\* Next that keeps the decode error in a local instead of r.err
viewResultsNext_errNotStored(r, shape) ==
    IF r.err # NoErr
    THEN [r |-> r, ret |-> FALSE, val |-> NoVal, row |-> NilBytes]
    ELSE LET nb == NextBytes(r) IN
         IF nb.ret = NilBytes
         THEN [r |-> nb.r, ret |-> FALSE, val |-> NoVal, row |-> NilBytes]
         ELSE LET u == Unmarshal(nb.ret, shape) IN
              [r |-> nb.r, ret |-> (u.err = NoErr), val |-> u.val, row |-> nb.ret]

\* Next that returns true for every row it handed to the decoder
viewResultsNext_trueOnError(r, shape) ==
    IF r.err # NoErr
    THEN [r |-> r, ret |-> FALSE, val |-> NoVal, row |-> NilBytes]
    ELSE LET nb == NextBytes(r) IN
         IF nb.ret = NilBytes
         THEN [r |-> nb.r, ret |-> FALSE, val |-> NoVal, row |-> NilBytes]
         ELSE LET u == Unmarshal(nb.ret, shape) IN
              [r |-> [nb.r EXCEPT !.err = u.err], ret |-> TRUE, val |-> u.val, row |-> nb.ret]

\* func (r *viewResults) Next(valuePtr interface{}) bool
\* (row: the payload handed to the decoder, NilBytes when none was)
viewResultsNext(r, shape) ==
    IF r.err # NoErr
    THEN [r |-> r, ret |-> FALSE, val |-> NoVal, row |-> NilBytes]
    ELSE LET nb == NextBytes(r) IN
         IF nb.ret = NilBytes
         THEN [r |-> nb.r, ret |-> FALSE, val |-> NoVal, row |-> NilBytes]
         ELSE LET u == Unmarshal(nb.ret, shape) IN
              [r |-> [nb.r EXCEPT !.err = u.err],
               ret |-> (u.err = NoErr),
               val |-> u.val,
               row |-> nb.ret]

\* Close that clears the terminal error once it has reported it
Close_clearsErr(r) == [r |-> [r EXCEPT !.err = NoErr], ret |-> r.err]

\* func (r *viewResults) Close() error
Close(r) == [r |-> r, ret |-> r.err]

\* One that returns Close's error when Next gave no row, without ErrNoResults
One_withoutErrNoResults(r, shape) ==
    LET n == viewResultsNext(r, shape) IN
    LET c == Close(n.r) IN
    LET o == [r |-> c.r, ret |-> NoErr, val |-> n.val, row |-> n.row,
              next |-> n.ret, closed |-> c.ret] IN
    IF ~n.ret
    THEN [o EXCEPT !.ret = c.ret]
    ELSE o

\* One that leaves the cursor at the last row once it has its result
One_exhausts(r, shape) ==
    LET n == viewResultsNext(r, shape) IN
    LET c == Close(n.r) IN
    LET o == [r |-> c.r, ret |-> NoErr, val |-> n.val, row |-> n.row,
              next |-> n.ret, closed |-> c.ret] IN
    IF ~n.ret
    THEN IF c.ret # NoErr
         THEN [o EXCEPT !.ret = c.ret]
         ELSE [o EXCEPT !.ret = ErrNoResults]
    ELSE [o EXCEPT !.r = [c.r EXCEPT !.index = Len(c.r.rows) - 1]]

\* func (r *viewResults) One(valuePtr interface{}) error
\* (next: what its Next call returned; closed: what its Close call returned)
One(r, shape) ==
    LET n == viewResultsNext(r, shape) IN
    IF ~n.ret
    THEN LET c == Close(n.r) IN
         LET o == [r |-> c.r, ret |-> NoErr, val |-> n.val, row |-> n.row,
                   next |-> n.ret, closed |-> c.ret] IN
         IF c.ret # NoErr
         THEN [o EXCEPT !.ret = c.ret]
         ELSE [o EXCEPT !.ret = ErrNoResults]
    ELSE LET c == Close(n.r) IN
         [r |-> c.r, ret |-> NoErr, val |-> n.val, row |-> n.row,
          next |-> n.ret, closed |-> c.ret]

\* TotalRows that counts the rows held
TotalRows_lenRows(r) == Len(r.rows)

\* func (r *viewResults) TotalRows() int
TotalRows(r) == r.totalRows

-----------------------------------------------------------------------------
(* The bucket and the collaborators of executeViewQuery *)

\* b.cluster.auth == nil
NoAuth == [none |-> TRUE]

\* a cluster-level authenticator: bucketViews(name) gives the pair stored for name
ClusterAuth == [bkt |-> [Username |-> "viewuser", Password |-> "viewpass"]]

\* func bucketViews(bucket string) userPassPair
bucketViews(auth, bucket) == auth[bucket]

\* the buckets a query runs on: with and without a cluster-level authenticator
Buckets == {[name |-> "bkt", password |-> "bktpass", auth |-> a] : a \in {NoAuth, ClusterAuth}}

\* no request was built
NoReq == [none |-> TRUE]

\* what the collaborators answer during one execution: getViewEp, http.NewRequest,
\* doHttpWithTimeout, the envelope decode, and resp.Body.Close
Envs ==
    LET base == [epErr |-> FALSE, reqErr |-> FALSE, httpErr |-> FALSE, decodeErr |-> FALSE,
                 closeErr |-> FALSE, status |-> 200, viewResp |-> ZeroViewResponse]
    IN  {[base EXCEPT !.epErr = TRUE], [base EXCEPT !.reqErr = TRUE],
         [base EXCEPT !.httpErr = TRUE]}
        \cup {[base EXCEPT !.decodeErr = TRUE, !.status = c] : c \in StatusCodes}
        \cup {[base EXCEPT !.status = c, !.viewResp = v, !.closeErr = ce] :
                c \in StatusCodes, v \in ViewResponses, ce \in BOOLEAN}

\* StatusReason without the final period
StatusReason_noPeriod(code) == "Status code was " \o ToString(code)

\* fmt.Sprintf("Status code was %d.", code)
StatusReason(code) == "Status code was " \o ToString(code) \o "."

\* the viewError executeViewQuery returns for a status other than 200
statusError(status, viewResp) ==
    IF viewResp.Error # ""
    THEN viewError(viewResp.Error, viewResp.Reason)
    ELSE viewError("HTTP Error", StatusReason(status))

\* newViewResults with the rows in reverse order
newViewResults_rowsReversed(viewResp) ==
    [index |-> -1,
     rows |-> [k \in 1..Len(viewResp.Rows) |-> viewResp.Rows[Len(viewResp.Rows) + 1 - k]],
     totalRows |-> viewResp.TotalRows, err |-> NoErr]

\* newViewResults with the index starting at the first row instead of before it
newViewResults_indexZero(viewResp) ==
    [index |-> 0, rows |-> viewResp.Rows, totalRows |-> viewResp.TotalRows, err |-> NoErr]

\* the &viewResults{...} executeViewQuery returns for status 200
newViewResults(viewResp) ==
    [index |-> -1, rows |-> viewResp.Rows, totalRows |-> viewResp.TotalRows, err |-> NoErr]

\* credentials that are always the bucket's own
credentials_bucketOnly(b) == [Username |-> b.name, Password |-> b.password]

\* the pair executeViewQuery passes to req.SetBasicAuth
credentials(b) ==
    IF b.auth # NoAuth
    THEN bucketViews(b.auth, b.name)
    ELSE [Username |-> b.name, Password |-> b.password]

\* the outcome of an execution that dispatched nothing
NoDispatch(err) ==
    [res |-> NilIter, err |-> err, requests |-> 0, req |-> NoReq,
     bodyReceived |-> FALSE, closeCalled |-> FALSE, closeLogged |-> FALSE]

\* executeViewQuery that returns the iterator along with the status error
executeViewQuery_iterOnError(b, viewType, ddoc, viewName, options, env) ==
    IF env.epErr
    THEN NoDispatch(ErrGetViewEp)
    ELSE IF env.reqErr
    THEN NoDispatch(ErrNewRequest)
    ELSE
    LET userPass == credentials(b)
        req == [method |-> "GET", viewType |-> viewType, ddoc |-> ddoc, viewName |-> viewName,
                options |-> options,
                Username |-> userPass.Username, Password |-> userPass.Password]
        sent == [NoDispatch(NoErr) EXCEPT !.requests = 1, !.req = req]
    IN
    IF env.httpErr
    THEN [sent EXCEPT !.err = ErrDoHttp]
    ELSE IF env.decodeErr
    THEN [sent EXCEPT !.err = ErrEnvelopeDecode, !.bodyReceived = TRUE]
    ELSE
    LET viewResp == env.viewResp
        got == [sent EXCEPT !.bodyReceived = TRUE, !.closeCalled = TRUE,
                            !.closeLogged = env.closeErr]
    IN
    IF env.status # 200
    THEN [got EXCEPT !.err = statusError(env.status, viewResp),
                     !.res = newViewResults(viewResp)]
    ELSE [got EXCEPT !.res = newViewResults(viewResp)]

\* executeViewQuery that returns the failure of resp.Body.Close() to its caller
executeViewQuery_closeErrReturned(b, viewType, ddoc, viewName, options, env) ==
    IF env.epErr
    THEN NoDispatch(ErrGetViewEp)
    ELSE IF env.reqErr
    THEN NoDispatch(ErrNewRequest)
    ELSE
    LET userPass == credentials(b)
        req == [method |-> "GET", viewType |-> viewType, ddoc |-> ddoc, viewName |-> viewName,
                options |-> options,
                Username |-> userPass.Username, Password |-> userPass.Password]
        sent == [NoDispatch(NoErr) EXCEPT !.requests = 1, !.req = req]
    IN
    IF env.httpErr
    THEN [sent EXCEPT !.err = ErrDoHttp]
    ELSE IF env.decodeErr
    THEN [sent EXCEPT !.err = ErrEnvelopeDecode, !.bodyReceived = TRUE]
    ELSE
    LET viewResp == env.viewResp
        got == [sent EXCEPT !.bodyReceived = TRUE, !.closeCalled = TRUE,
                            !.closeLogged = env.closeErr]
    IN
    IF env.closeErr
    THEN [got EXCEPT !.err = [kind |-> "Body.Close"]]
    ELSE IF env.status # 200
    THEN [got EXCEPT !.err = statusError(env.status, viewResp)]
    ELSE [got EXCEPT !.res = newViewResults(viewResp)]

\* func (b *Bucket) executeViewQuery(viewType, ddoc, viewName string, options url.Values)
\*     (ViewResults, error)
\* res, err: the pair returned; requests, req: the requests dispatched and the last one;
\* bodyReceived: doHttpWithTimeout gave a response; closeCalled: resp.Body.Close() was
\* called; closeLogged: its failure was logged
executeViewQuery(b, viewType, ddoc, viewName, options, env) ==
    IF env.epErr
    THEN NoDispatch(ErrGetViewEp)
    ELSE IF env.reqErr
    THEN NoDispatch(ErrNewRequest)
    ELSE
    LET userPass == credentials(b)
        req == [method |-> "GET", viewType |-> viewType, ddoc |-> ddoc, viewName |-> viewName,
                options |-> options,
                Username |-> userPass.Username, Password |-> userPass.Password]
        sent == [NoDispatch(NoErr) EXCEPT !.requests = 1, !.req = req]
    IN
    IF env.httpErr
    THEN [sent EXCEPT !.err = ErrDoHttp]
    ELSE IF env.decodeErr
    THEN [sent EXCEPT !.err = ErrEnvelopeDecode, !.bodyReceived = TRUE]
    ELSE
    LET viewResp == env.viewResp
        got == [sent EXCEPT !.bodyReceived = TRUE, !.closeCalled = TRUE,
                            !.closeLogged = env.closeErr]
    IN
    IF env.status # 200
    THEN [got EXCEPT !.err = statusError(env.status, viewResp)]
    ELSE [got EXCEPT !.res = newViewResults(viewResp)]

\* the queries a caller passes: one that validates and one that does not
Queries ==
    {[ddoc |-> "ddoc", name |-> "view", opts |-> "stale=false", err |-> NoErr],
     [ddoc |-> "", name |-> "", opts |-> "", err |-> ErrGetInfo]}

\* func (q *ViewQuery) getInfo() and func (q *SpatialQuery) getInfo():
\* (ddoc, name, options, error)
getInfo(q) == q

\* ExecuteViewQuery that goes on after getInfo failed
ExecuteViewQuery_getInfoErrIgnored(b, q, env) ==
    LET info == getInfo(q) IN
    executeViewQuery(b, "_view", info.ddoc, info.name, info.opts, env)

\* func (b *Bucket) ExecuteViewQuery(q *ViewQuery) (ViewResults, error)
ExecuteViewQuery(b, q, env) ==
    LET info == getInfo(q) IN
    IF info.err # NoErr
    THEN NoDispatch(info.err)
    ELSE executeViewQuery(b, "_view", info.ddoc, info.name, info.opts, env)

\* func (b *Bucket) ExecuteSpatialQuery(q *SpatialQuery) (ViewResults, error)
ExecuteSpatialQuery(b, q, env) ==
    LET info == getInfo(q) IN
    IF info.err # NoErr
    THEN NoDispatch(info.err)
    ELSE executeViewQuery(b, "_spatial", info.ddoc, info.name, info.opts, env)

-----------------------------------------------------------------------------
(* The state machine: each slot is one query execution and the use of its result *)

\* the slots of a caller
Slots == DOMAIN iter

\* nothing handed out yet
NoHist == [handed |-> <<>>, nextTrue |-> 0, nbytes |-> 0]

\* a call record: op and slot, and what the call returned (ok: Next's bool,
\* bytes: NextBytes' payload, err: the error of One and Close, n: TotalRows' int,
\* val: the target after Next and One), and the target type passed as valuePtr;
\* for One, ok and closed are what its Next and its Close returned
Op(op, i) ==
    [op |-> op, slot |-> i, ok |-> FALSE, bytes |-> NilBytes, err |-> NoErr, n |-> 0,
     val |-> NoVal, shape |-> "none", closed |-> NoErr]

\* the history after a call that handed out the payload row (NilBytes: none)
Handed(h, row, viaNext, viaBytes) ==
    IF row = NilBytes
    THEN h
    ELSE [handed |-> Append(h.handed, row),
          nextTrue |-> h.nextTrue + (IF viaNext THEN 1 ELSE 0),
          nbytes |-> h.nbytes + (IF viaBytes THEN 1 ELSE 0)]

\* a slot's call record: the bucket b, the query q, the collaborators' answers env,
\* and the outcome out of Execute*Query
NoCall == [b |-> CHOOSE b \in Buckets : b.auth = NoAuth,
           q |-> CHOOSE q \in Queries : q.err = NoErr,
           env |-> CHOOSE e \in Envs : e.epErr,
           out |-> NoDispatch(NoErr)]

\* the state before any query
InitSlots(S) ==
    /\ pc = [i \in S |-> "start"]
    /\ iter = [i \in S |-> NilIter]
    /\ call = [i \in S |-> NoCall]
    /\ hist = [i \in S |-> NoHist]
    /\ lastOp = Op("none", 0)

Init == InitSlots({1})

\* the caller stores the pair an execution returned
Store(i, op, b, q, env, o) ==
    /\ pc' = [pc EXCEPT ![i] = "returned"]
    /\ iter' = [iter EXCEPT ![i] = o.res]
    /\ call' = [call EXCEPT ![i] = [b |-> b, q |-> q, env |-> env, out |-> o]]
    /\ hist' = [hist EXCEPT ![i] = NoHist]
    /\ lastOp' = [Op(op, i) EXCEPT !.err = o.err]

CallExecuteViewQuery ==
    \E i \in Slots :
        /\ pc[i] = "start"
        /\ \E b \in Buckets, q \in Queries, env \in Envs :
            Store(i, "ExecuteViewQuery", b, q, env, ExecuteViewQuery(b, q, env))

CallExecuteSpatialQuery ==
    \E i \in Slots :
        /\ pc[i] = "start"
        /\ \E b \in Buckets, q \in Queries, env \in Envs :
            Store(i, "ExecuteSpatialQuery", b, q, env, ExecuteSpatialQuery(b, q, env))

CallNext ==
    \E i \in Slots, shape \in Shapes :
        /\ iter[i] # NilIter
        /\ LET n == viewResultsNext(iter[i], shape) IN
           /\ iter' = [iter EXCEPT ![i] = n.r]
           /\ hist' = [hist EXCEPT ![i] = Handed(@, n.row, n.ret, FALSE)]
           /\ lastOp' = [Op("Next", i) EXCEPT !.ok = n.ret, !.val = n.val, !.shape = shape]
        /\ UNCHANGED <<pc, call>>

\* NextBytes on a position that all iterators share, as a package-level index would be
CallNextBytes_sharedIndex ==
    \E i \in Slots :
        /\ iter[i] # NilIter
        /\ LET nb == NextBytes(iter[i]) IN
           /\ iter' = [j \in Slots |->
                        IF iter[j] = NilIter
                        THEN NilIter
                        ELSE [iter[j] EXCEPT !.index = nb.r.index]]
           /\ hist' = [hist EXCEPT ![i] = Handed(@, nb.ret, FALSE, TRUE)]
           /\ lastOp' = [Op("NextBytes", i) EXCEPT !.bytes = nb.ret]
        /\ UNCHANGED <<pc, call>>

CallNextBytes ==
    \E i \in Slots :
        /\ iter[i] # NilIter
        /\ LET nb == NextBytes(iter[i]) IN
           /\ iter' = [iter EXCEPT ![i] = nb.r]
           /\ hist' = [hist EXCEPT ![i] = Handed(@, nb.ret, FALSE, TRUE)]
           /\ lastOp' = [Op("NextBytes", i) EXCEPT !.bytes = nb.ret]
        /\ UNCHANGED <<pc, call>>

CallOne ==
    \E i \in Slots, shape \in Shapes :
        /\ iter[i] # NilIter
        /\ LET o == One(iter[i], shape) IN
           /\ iter' = [iter EXCEPT ![i] = o.r]
           /\ hist' = [hist EXCEPT ![i] = Handed(@, o.row, o.next, FALSE)]
           /\ lastOp' = [Op("One", i) EXCEPT !.err = o.ret, !.val = o.val, !.shape = shape,
                                             !.ok = o.next, !.closed = o.closed]
        /\ UNCHANGED <<pc, call>>

CallClose ==
    \E i \in Slots :
        /\ iter[i] # NilIter
        /\ LET c == Close(iter[i]) IN
           /\ iter' = [iter EXCEPT ![i] = c.r]
           /\ lastOp' = [Op("Close", i) EXCEPT !.err = c.ret]
        /\ UNCHANGED <<pc, call, hist>>

CallTotalRows ==
    \E i \in Slots :
        /\ iter[i] # NilIter
        /\ lastOp' = [Op("TotalRows", i) EXCEPT !.n = TotalRows(iter[i])]
        /\ UNCHANGED <<pc, iter, call, hist>>

Next ==
    \/ CallExecuteViewQuery
    \/ CallExecuteSpatialQuery
    \/ CallNext
    \/ CallNextBytes
    \/ CallOne
    \/ CallClose
    \/ CallTotalRows

Spec == Init /\ [][Next]_vars

-----------------------------------------------------------------------------
(* Properties of executeViewQuery *)

\* slot i ran executeViewQuery up to the classification of the response: the query
\* validated, the endpoint resolved, the request was built and dispatched, and the
\* envelope decoded
Classified(i) ==
    /\ pc[i] = "returned"
    /\ call[i].q.err = NoErr
    /\ ~call[i].env.epErr /\ ~call[i].env.reqErr /\ ~call[i].env.httpErr
    /\ ~call[i].env.decodeErr

\* the decimal digits of a natural number
RECURSIVE Decimal(_)
Decimal(n) ==
    LET d == <<"0", "1", "2", "3", "4", "5", "6", "7", "8", "9">>
    IN  IF n < 10 THEN d[n + 1] ELSE Decimal(n \div 10) \o d[(n % 10) + 1]

\* C1: whatever the HTTP status (200 included), an envelope whose error field is not
\* empty makes the execution fail with the query error (envelope error, envelope
\* reason), and no iterator is returned.
C1_AppErrorAnyStatus ==
    \A i \in Slots :
        (Classified(i) /\ call[i].env.viewResp.Error # "")
            => /\ call[i].out.err = viewError(call[i].env.viewResp.Error,
                                              call[i].env.viewResp.Reason)
               /\ call[i].out.res = NilIter

\* C2: for a status c other than 200 and an envelope whose error field is empty, the
\* execution fails with the query error ("HTTP Error", "Status code was c.") and no
\* iterator is returned.
C2_HttpError ==
    \A i \in Slots :
        (Classified(i) /\ call[i].env.status # 200 /\ call[i].env.viewResp.Error = "")
            => /\ call[i].out.err.kind = "viewError"
               /\ call[i].out.err.Message = "HTTP Error"
               /\ call[i].out.err.Reason
                    = "Status code was " \o Decimal(call[i].env.status) \o "."
               /\ call[i].env.status = 404
                    => call[i].out.err.Reason = "Status code was 404."
               /\ call[i].out.res = NilIter
               /\ iter[i] = NilIter

\* C2 happens: a 404 with an empty error field was answered with the HTTP error
C2_Witness ==
    \E i \in Slots :
        /\ Classified(i) /\ call[i].env.status = 404 /\ call[i].env.viewResp.Error = ""
        /\ call[i].out.err = viewError("HTTP Error", "Status code was 404.")

\* C3: when everything up to the classification succeeds, the status is 200 and the
\* envelope's error field is empty, the execution returns no error and an iterator
\* whose rows are the envelope's rows, in that order, and whose TotalRows is the
\* envelope's total_rows.
C3_Success ==
    \A i \in Slots :
        (Classified(i) /\ call[i].env.status = 200 /\ call[i].env.viewResp.Error = "")
            => /\ call[i].out.err = NoErr
               /\ call[i].out.res # NilIter
               /\ call[i].out.res.rows = call[i].env.viewResp.Rows
               /\ TotalRows(call[i].out.res) = call[i].env.viewResp.TotalRows
               /\ iter[i] # NilIter
               /\ iter[i].rows = call[i].env.viewResp.Rows
               /\ TotalRows(iter[i]) = call[i].env.viewResp.TotalRows
               /\ hist[i].handed = SubSeq(call[i].env.viewResp.Rows, 1, Len(hist[i].handed))

\* C3 happens: a 200 with two different rows and another total_rows was returned,
\* and both rows were handed out
C3_Witness ==
    \E i \in Slots :
        /\ Classified(i) /\ call[i].env.status = 200 /\ call[i].env.viewResp.Error = ""
        /\ call[i].env.viewResp.Rows = <<"\"a\"", "1">>
        /\ call[i].env.viewResp.TotalRows = 1
        /\ call[i].out.err = NoErr
        /\ hist[i].handed = <<"\"a\"", "1">>

-----------------------------------------------------------------------------
(* Properties of the viewResults iterator *)

\* slot i holds an iterator
Live(i) == iter[i] # NilIter

\* the step is a call of op on slot i's iterator
Called(i, op) == Live(i) /\ lastOp'.slot = i /\ lastOp'.op = op

\* the last call was op on slot i's iterator
Last(i, op) == Live(i) /\ lastOp.slot = i /\ lastOp.op = op

\* no row remains after the position
Exhausted(r) == r.index + 1 >= Len(r.rows)

\* C4, in every state: while no row failed to decode, every row up to the position
\* was returned by a Next that returned true or by NextBytes (so with Next alone,
\* the number of true returns is the position + 1); Next returns false and NextBytes
\* returns nothing only when all N rows were returned; Close returns no error.
C4_Counted ==
    \A i \in Slots :
        (Live(i) /\ iter[i].err = NoErr)
            => /\ hist[i].nextTrue + hist[i].nbytes = iter[i].index + 1
               /\ hist[i].nextTrue <= Len(iter[i].rows)
               /\ (Last(i, "Next") /\ ~lastOp.ok) => iter[i].index + 1 = Len(iter[i].rows)
               /\ (Last(i, "Next") /\ ~lastOp.ok /\ hist[i].nbytes = 0)
                    => hist[i].nextTrue = Len(iter[i].rows)
               /\ (Last(i, "NextBytes") /\ lastOp.bytes = NilBytes)
                    => iter[i].index + 1 = Len(iter[i].rows)
               /\ Last(i, "Close") => lastOp.err = NoErr

\* C4, in every step: a Next on a row that decodes returns true and advances by one
\* row; once all N rows were returned, Next returns false and NextBytes returns
\* nothing, and neither changes the iterator.
C4_Step ==
    \A i \in Slots :
        (Live(i) /\ iter[i].err = NoErr)
            => /\ (Called(i, "Next") /\ ~Exhausted(iter[i])
                    /\ Unmarshal(iter[i].rows[iter[i].index + 2], lastOp'.shape).err = NoErr)
                    => /\ lastOp'.ok
                       /\ iter'[i] = [iter[i] EXCEPT !.index = iter[i].index + 1]
                       /\ hist'[i].nextTrue = hist[i].nextTrue + 1
               /\ (Called(i, "Next") /\ Exhausted(iter[i]))
                    => ~lastOp'.ok /\ iter'[i] = iter[i] /\ hist'[i] = hist[i]
               /\ (Called(i, "NextBytes") /\ Exhausted(iter[i]))
                    => lastOp'.bytes = NilBytes /\ iter'[i] = iter[i] /\ hist'[i] = hist[i]

\* C4: N rows that all decode give exactly N true returns of Next, then false and
\* nothing for ever, with the iterator unchanged and no error from Close.
C4_ExactlyN == [] C4_Counted /\ [][C4_Step]_vars

\* C4 happens: two rows were returned by two Next calls, and the third returned false
C4_Witness ==
    \E i \in Slots :
        /\ Last(i, "Next") /\ ~lastOp.ok
        /\ iter[i].err = NoErr /\ Len(iter[i].rows) = 2
        /\ hist[i].nextTrue = 2 /\ hist[i].nbytes = 0

\* C5: once the terminal error is set, no call changes the error or the position or
\* hands out a row: Next returns false, NextBytes returns nothing, One and Close
\* return that same error.
C5_Sticky ==
    [][\A i \in Slots :
        (Live(i) /\ iter[i].err # NoErr)
            => /\ iter'[i] = iter[i]
               /\ hist'[i] = hist[i]
               /\ Called(i, "Next") => (~lastOp'.ok /\ lastOp'.val = NoVal)
               /\ Called(i, "NextBytes") => lastOp'.bytes = NilBytes
               /\ Called(i, "One") => lastOp'.err = iter[i].err
               /\ Called(i, "Close") => lastOp'.err = iter[i].err
               /\ Called(i, "TotalRows") => lastOp'.n = iter[i].totalRows]_vars

\* C5 happens: NextBytes was called with the error set and a row remaining, and
\* returned nothing
C5_Witness ==
    \E i \in Slots :
        /\ Last(i, "NextBytes") /\ lastOp.bytes = NilBytes
        /\ iter[i].err # NoErr
        /\ ~Exhausted(iter[i])
\* C6: when a row fails to decode in Next, Next returns false (a false return with a
\* row remaining means the error was recorded); the terminal error is the decode
\* error of the row at the position, which is the first row that failed; Close
\* returns exactly that error; and the rows after it are never handed out: what was
\* handed out stops at the failed row.
C6_DecodeFailure ==
    \A i \in Slots :
        Live(i)
            => /\ (Last(i, "Next") /\ ~lastOp.ok /\ ~Exhausted(iter[i]))
                    => iter[i].err # NoErr
               /\ iter[i].err # NoErr
                    => /\ iter[i].index >= 0
                       /\ iter[i].err.kind = "UnmarshalTypeError"
                       /\ iter[i].err.Value = JSONKind(iter[i].rows[iter[i].index + 1])
                       /\ \E shape \in Shapes :
                            iter[i].err = Unmarshal(iter[i].rows[iter[i].index + 1], shape).err
                       /\ hist[i].handed = SubSeq(iter[i].rows, 1, iter[i].index + 1)
                       /\ hist[i].nextTrue + hist[i].nbytes = iter[i].index
                       /\ Last(i, "Next") => ~lastOp.ok
                       /\ Last(i, "NextBytes") => lastOp.bytes = NilBytes
                       /\ Last(i, "One") => lastOp.err = iter[i].err
                       /\ Last(i, "Close") => lastOp.err = iter[i].err

\* C6 happens: the first of two rows failed to decode, Close returned the decode
\* error, and the second row was not handed out
C6_Witness ==
    \E i \in Slots :
        /\ Last(i, "Close") /\ lastOp.err.kind = "UnmarshalTypeError"
        /\ Len(iter[i].rows) = 2 /\ iter[i].index = 0
        /\ hist[i].handed = <<iter[i].rows[1]>>

\* a fresh iterator: before the first row, no terminal error
Fresh(r) == r.index = -1 /\ r.err = NoErr

\* C7: One on a fresh iterator returns ErrNoResults when there is no row, no error
\* and the first row's decoded value when the first row decodes, and the decode error
\* when it does not; One with no row remaining and no terminal error returns
\* ErrNoResults and changes nothing.
C7_One ==
    [][\A i \in Slots :
        Called(i, "One")
            => LET r == iter[i]
                   u == Unmarshal(r.rows[1], lastOp'.shape)
               IN  /\ (Fresh(r) /\ Len(r.rows) = 0) => lastOp'.err = ErrNoResults
                   /\ (Fresh(r) /\ Len(r.rows) > 0 /\ u.err = NoErr)
                        => /\ lastOp'.err = NoErr
                           /\ lastOp'.val # NoVal
                           /\ lastOp'.val = JSONValue(r.rows[1], lastOp'.shape)
                   /\ (Fresh(r) /\ Len(r.rows) > 0 /\ u.err # NoErr)
                        => /\ lastOp'.err = u.err
                           /\ lastOp'.err.kind = "UnmarshalTypeError"
                   /\ (r.err = NoErr /\ Exhausted(r))
                        => /\ lastOp'.err = ErrNoResults
                           /\ iter'[i] = r
                           /\ hist'[i] = hist[i]]_vars

\* C7 happens: One returned the only row, and One again returned ErrNoResults
C7_Witness ==
    \E i \in Slots :
        /\ Last(i, "One") /\ lastOp.err = ErrNoResults
        /\ Len(iter[i].rows) = 1 /\ hist[i].nextTrue = 1 /\ hist[i].nbytes = 0

\* C8: Close returns the terminal error (no error when none is set) and leaves
\* position, rows, totalRows and terminal error as they were, so the calls after it
\* see the iterator they would have seen without it.
C8_ClosePure ==
    [][\A i \in Slots :
        Called(i, "Close")
            => /\ lastOp'.err = iter[i].err
               /\ iter'[i] = iter[i]
               /\ hist'[i] = hist[i]]_vars

\* C8 happens: Close returned a terminal error in the middle of the rows
C8_Witness ==
    \E i \in Slots :
        /\ Last(i, "Close") /\ lastOp.err # NoErr /\ lastOp.err = iter[i].err
        /\ ~Exhausted(iter[i])

\* C9, in every state: the position is at least the before-first value and at most
\* the last row's index.
C9_Bounded ==
    \A i \in Slots :
        Live(i) => (-1 <= iter[i].index /\ iter[i].index <= Len(iter[i].rows) - 1)

\* C9, in every step: the position stays or grows by exactly one.
C9_Step ==
    \A i \in Slots :
        (Live(i) /\ iter'[i] # NilIter)
            => (iter'[i].index = iter[i].index \/ iter'[i].index = iter[i].index + 1)

\* C9: the position is always between before-first and the last row index, and each
\* operation changes it by 0 or by +1.
C9_Position == [] C9_Bounded /\ [][C9_Step]_vars

\* C9 happens: the position is at the last of two rows and NextBytes was called again
C9_Witness ==
    \E i \in Slots :
        /\ Last(i, "NextBytes") /\ lastOp.bytes = NilBytes
        /\ Len(iter[i].rows) = 2 /\ iter[i].index = 1

\* C10: TotalRows is the envelope's total_rows in every state of the iterator, before
\* and after any calls, exhaustion or a decode failure, whatever the number of rows.
C10_TotalRows ==
    \A i \in Slots :
        Live(i)
            => /\ TotalRows(iter[i]) = call[i].env.viewResp.TotalRows
               /\ Last(i, "TotalRows") => lastOp.n = call[i].env.viewResp.TotalRows

\* C10 happens: TotalRows was called after a decode failure, on an iterator whose
\* total_rows is not its number of rows
C10_Witness ==
    \E i \in Slots :
        /\ Last(i, "TotalRows") /\ lastOp.n = 1
        /\ Len(iter[i].rows) = 2
        /\ iter[i].err # NoErr

-----------------------------------------------------------------------------
(* Properties of the execution as a whole *)

\* slot i's execution has returned
Returned(i) == pc[i] = "returned"

\* C11: every execution that received a response has closed the response body when
\* it returns, whatever the exit path (decode failure, query error, status error,
\* success).
C11_BodyReleased ==
    \A i \in Slots :
        (Returned(i) /\ call[i].out.bodyReceived) => call[i].out.closeCalled

\* C12: an execution returns either an iterator and no error, or no iterator and an
\* error; a returned iterator is before the first row, has no terminal error, and
\* has the rows and total_rows of the decoded envelope.
C12_IteratorOrError ==
    \A i \in Slots :
        Returned(i)
            => /\ (call[i].out.res # NilIter) <=> (call[i].out.err = NoErr)
               /\ call[i].out.res # NilIter
                    => /\ Classified(i)
                       /\ call[i].out.res.index = -1
                       /\ call[i].out.res.err = NoErr
                       /\ call[i].out.res.rows = call[i].env.viewResp.Rows
                       /\ call[i].out.res.totalRows = call[i].env.viewResp.TotalRows
               /\ (lastOp.slot = i /\ lastOp.op \in {"ExecuteViewQuery", "ExecuteSpatialQuery"})
                    => (lastOp.err = call[i].out.err /\ iter[i] = call[i].out.res)

\* C12 happens: an execution has just returned an iterator over two rows and no error
C12_Witness ==
    \E i \in Slots :
        /\ Returned(i) /\ lastOp.op = "ExecuteViewQuery"
        /\ call[i].out.res # NilIter /\ call[i].out.err = NoErr
        /\ Len(call[i].out.res.rows) = 2

\* C13: an execution dispatches at most one request, also when the dispatch, the
\* decode or the classification fails; it dispatches none when getInfo fails or the
\* endpoint does not resolve, and then returns that error.
C13_AtMostOneRequest ==
    \A i \in Slots :
        Returned(i)
            => /\ call[i].out.requests \in {0, 1}
               /\ call[i].q.err # NoErr
                    => /\ call[i].out.requests = 0 /\ call[i].out.req = NoReq
                       /\ call[i].out.err = call[i].q.err
                       /\ call[i].out.res = NilIter
               /\ (call[i].q.err = NoErr /\ call[i].env.epErr)
                    => /\ call[i].out.requests = 0 /\ call[i].out.req = NoReq
                       /\ call[i].out.err = ErrGetViewEp
                       /\ call[i].out.res = NilIter
               /\ (call[i].q.err = NoErr /\ ~call[i].env.epErr /\ ~call[i].env.reqErr)
                    => call[i].out.requests = 1
               /\ (call[i].out.requests = 1 /\ call[i].env.httpErr)
                    => call[i].out.err = ErrDoHttp

\* C13 happens: a query that does not validate was given to ExecuteViewQuery, which
\* returned getInfo's error without a request
C13_Witness ==
    \E i \in Slots :
        /\ Returned(i) /\ lastOp.op = "ExecuteViewQuery"
        /\ call[i].q.err = ErrGetInfo
        /\ call[i].out.err = ErrGetInfo /\ call[i].out.requests = 0

\* C16: the request dispatched carries the pair the cluster-level authenticator gives
\* for the bucket name when one is configured (not the bucket password), and the
\* bucket name and bucket password otherwise.
C16_Credentials ==
    \A i \in Slots :
        (Returned(i) /\ call[i].out.requests = 1)
            => /\ call[i].b.auth # NoAuth
                    => /\ call[i].out.req.Username = call[i].b.auth[call[i].b.name].Username
                       /\ call[i].out.req.Password = call[i].b.auth[call[i].b.name].Password
                       /\ call[i].out.req.Username = "viewuser"
                       /\ call[i].out.req.Password = "viewpass"
                       /\ call[i].out.req.Password # call[i].b.password
               /\ call[i].b.auth = NoAuth
                    => /\ call[i].out.req.Username = call[i].b.name
                       /\ call[i].out.req.Password = call[i].b.password

\* C16 happens: a request was dispatched for a bucket with an authenticator
C16_Witness ==
    \E i \in Slots :
        /\ Returned(i) /\ call[i].out.requests = 1
        /\ call[i].b.auth = ClusterAuth
        /\ call[i].out.req.Username = "viewuser"

\* the outcome slot i's execution would have had with the other result of
\* resp.Body.Close()
OtherClose(i) ==
    executeViewQuery(call[i].b, call[i].out.req.viewType, call[i].q.ddoc, call[i].q.name,
                     call[i].q.opts, [call[i].env EXCEPT !.closeErr = ~call[i].env.closeErr])

\* C17: the iterator or error an execution returns is the one it returns for the same
\* status and envelope when resp.Body.Close() ends the other way; a failed close is
\* logged and nothing else.
C17_CloseFailureSuppressed ==
    \A i \in Slots :
        (Classified(i) /\ call[i].out.requests = 1)
            => /\ call[i].out.res = OtherClose(i).res
               /\ call[i].out.err = OtherClose(i).err
               /\ call[i].out.closeLogged = call[i].env.closeErr
               /\ call[i].out.err.kind \in {"nil", "viewError"}
               /\ (call[i].env.closeErr /\ call[i].env.status = 200)
                    => (call[i].out.err = NoErr /\ call[i].out.res # NilIter)

\* C17 happens: the close failed after a 200, and the iterator was returned and used
C17_Witness ==
    \E i \in Slots :
        /\ Classified(i) /\ call[i].env.closeErr /\ call[i].out.closeLogged
        /\ call[i].env.status = 200
        /\ Last(i, "Next") /\ lastOp.ok

-----------------------------------------------------------------------------
(* Properties of the iterator under mixed use *)

\* C15, in every state: what was handed out (returned by NextBytes, or given to the
\* decoder by Next and One) is the envelope's rows up to the position, in order.
C15_Prefix ==
    \A i \in Slots :
        Live(i)
            => /\ iter[i].rows = call[i].env.viewResp.Rows
               /\ Len(hist[i].handed) = iter[i].index + 1
               /\ hist[i].handed = SubSeq(call[i].env.viewResp.Rows, 1, iter[i].index + 1)

\* C15, in every step: with no terminal error and a row remaining, NextBytes moves
\* the position by exactly one and returns the row at the new position; no call
\* hands out more than one row.
C15_Step ==
    \A i \in Slots :
        Live(i)
            => /\ (Called(i, "NextBytes") /\ iter[i].err = NoErr /\ ~Exhausted(iter[i]))
                    => /\ iter'[i].index = iter[i].index + 1
                       /\ lastOp'.bytes = iter[i].rows[iter'[i].index + 1]
                       /\ hist'[i].handed = Append(hist[i].handed, lastOp'.bytes)
               /\ Len(hist'[i].handed) \in {Len(hist[i].handed), Len(hist[i].handed) + 1}

\* C15: under any interleaving of Next, NextBytes, One and Close the payloads handed
\* out are a prefix of the rows in response order, one row per successful call.
C15_InOrder == [] C15_Prefix /\ [][C15_Step]_vars

\* C15 happens: Next took the first row and NextBytes returned the second
C15_Witness ==
    \E i \in Slots :
        /\ Last(i, "NextBytes") /\ lastOp.bytes = "1"
        /\ hist[i].handed = <<"\"a\"", "1">>
        /\ hist[i].nextTrue = 1 /\ hist[i].nbytes = 1

\* C18: a One that returns no error has moved the position by exactly one row and
\* decoded that row, leaves the terminal error unset and the rows as they were; and
\* while a row that decodes remains, One returns no error (not ErrNoResults), so the
\* rows after the first are still to be had.
C18_OneConsumesOne ==
    [][\A i \in Slots :
        Called(i, "One")
            => /\ lastOp'.err = NoErr
                    => /\ iter'[i] = [iter[i] EXCEPT !.index = iter[i].index + 1]
                       /\ iter'[i].err = NoErr
                       /\ hist'[i].handed
                            = Append(hist[i].handed, iter[i].rows[iter[i].index + 2])
                       /\ lastOp'.val = JSONValue(iter[i].rows[iter[i].index + 2], lastOp'.shape)
                       /\ Len(iter'[i].rows) - (iter'[i].index + 1)
                            = Len(iter[i].rows) - (iter[i].index + 1) - 1
               /\ (iter[i].err = NoErr /\ ~Exhausted(iter[i])
                    /\ Unmarshal(iter[i].rows[iter[i].index + 2], lastOp'.shape).err = NoErr)
                    => lastOp'.err = NoErr]_vars

\* C18 happens: after the first of two rows was taken, One returned no error and the
\* second row's value
C18_Witness ==
    \E i \in Slots :
        /\ Last(i, "One") /\ lastOp.err = NoErr
        /\ Len(iter[i].rows) = 2 /\ iter[i].index = 1
        /\ hist[i].nextTrue = 2
        /\ lastOp.val = JSONValue(iter[i].rows[2], lastOp.shape)

\* C19: when Next returns true the terminal error is unset; the Close that One calls
\* after a Next that returned true returns no error, so One never hides an error;
\* and One returns an error exactly when its Next returned false.
C19_NoHiddenError ==
    \A i \in Slots :
        Live(i)
            => /\ (Last(i, "Next") /\ lastOp.ok) => iter[i].err = NoErr
               /\ Last(i, "One")
                    => /\ lastOp.ok => (lastOp.closed = NoErr /\ iter[i].err = NoErr)
                       /\ (lastOp.err # NoErr) <=> ~lastOp.ok
                       /\ lastOp.closed # NoErr => lastOp.err = lastOp.closed
                       /\ lastOp.closed = iter[i].err

\* C19 happens: One's Next returned true and its Close returned no error
C19_Witness ==
    \E i \in Slots :
        /\ Last(i, "One") /\ lastOp.ok
        /\ lastOp.closed = NoErr /\ lastOp.err = NoErr
        /\ lastOp.val # NoVal

\* C20, in every state: the terminal error is set exactly when one row was handed to
\* the decoder without a true return, and that row is the one at the position;
\* NextBytes returning nothing with no error set means every row was handed out.
C20_Consumed ==
    \A i \in Slots :
        Live(i)
            => /\ iter[i].err = NoErr
                    => Len(hist[i].handed) = hist[i].nextTrue + hist[i].nbytes
               /\ iter[i].err # NoErr
                    => /\ Len(hist[i].handed) = hist[i].nextTrue + hist[i].nbytes + 1
                       /\ iter[i].index >= 0
                       /\ hist[i].handed[Len(hist[i].handed)] = iter[i].rows[iter[i].index + 1]
               /\ (Last(i, "NextBytes") /\ lastOp.bytes = NilBytes /\ iter[i].err = NoErr)
                    => Len(hist[i].handed) = Len(iter[i].rows)
               /\ (hist[i].nextTrue = 0 /\ Len(hist[i].handed) = hist[i].nbytes)
                    => iter[i].err = NoErr

\* C20, in every step: the terminal error changes only in a Next or One whose decode
\* failed; NextBytes, Close and TotalRows leave it alone, and with the error set
\* NextBytes returns nothing.
C20_Step ==
    \A i \in Slots :
        (Live(i) /\ iter'[i] # NilIter)
            => /\ iter'[i].err # iter[i].err
                    => /\ lastOp'.slot = i /\ lastOp'.op \in {"Next", "One"}
                       /\ ~lastOp'.ok
                       /\ iter[i].err = NoErr
                       /\ iter'[i].err.kind = "UnmarshalTypeError"
                       /\ iter'[i].index = iter[i].index + 1
               /\ (Called(i, "NextBytes") /\ iter[i].err # NoErr)
                    => lastOp'.bytes = NilBytes

\* C20: only the decode step of Next sets the terminal error; with NextBytes and Close
\* alone all len(rows) payloads come out and Close returns no error; a row whose
\* decode failed is consumed and NextBytes never returns it.
C20_OnlyDecodeSetsErr == [] C20_Consumed /\ [][C20_Step]_vars

\* C20 happens: NextBytes alone handed out both rows, then returned nothing with no
\* terminal error
C20_Witness ==
    \E i \in Slots :
        /\ Last(i, "NextBytes") /\ lastOp.bytes = NilBytes
        /\ iter[i].err = NoErr
        /\ Len(iter[i].rows) = 2 /\ hist[i].nbytes = 2 /\ hist[i].nextTrue = 0

-----------------------------------------------------------------------------
(* Two executions side by side *)

\* the envelopes of two different queries: two rows, and one row
PairResponses ==
    {[TotalRows |-> 1, Rows |-> <<"1", "\"a\"">>, Error |-> "", Reason |-> ""],
     [TotalRows |-> 0, Rows |-> <<"\"a\"">>, Error |-> "", Reason |-> ""]}

\* the answers of the collaborators for these: every step succeeds, status 200
PairEnvs ==
    {e \in Envs : /\ ~e.epErr /\ ~e.reqErr /\ ~e.httpErr /\ ~e.decodeErr /\ ~e.closeErr
                  /\ e.status = 200
                  /\ e.viewResp \in PairResponses}

\* ExecuteViewQuery of a query that validates and is answered from PairEnvs
CallExecuteViewQueryPair ==
    \E i \in Slots :
        /\ pc[i] = "start"
        /\ \E b \in Buckets, q \in {x \in Queries : x.err = NoErr}, env \in PairEnvs :
            /\ b.auth = NoAuth
            /\ Store(i, "ExecuteViewQuery", b, q, env, ExecuteViewQuery(b, q, env))

\* a caller with two slots
InitTwo == InitSlots({1, 2})

NextTwo ==
    \/ CallExecuteViewQueryPair
    \/ CallNext
    \/ CallNextBytes
    \/ CallOne
    \/ CallClose
    \/ CallTotalRows

SpecTwo == InitTwo /\ [][NextTwo]_vars

\* C14: a call on one slot's iterator (or the execution that creates it) leaves the
\* other slot's iterator, with its position, rows, totalRows and terminal error, and
\* what that iterator has handed out, as they were.
C14_Isolation ==
    [][\A i, j \in Slots :
        (i # j /\ lastOp'.slot = i)
            => /\ iter'[j] = iter[j]
               /\ hist'[j] = hist[j]
               /\ call'[j] = call[j]
               /\ pc'[j] = pc[j]]_vars

\* C14 happens: of two iterators, one is at its second row after a NextBytes while the
\* other holds a decode error at its first row
C14_Witness ==
    /\ Slots = {1, 2}
    /\ Live(1) /\ Live(2)
    /\ Last(1, "NextBytes") /\ iter[1].index = 1 /\ iter[1].err = NoErr
    /\ iter[2].err # NoErr /\ iter[2].index = 0
    /\ hist[1].handed = <<"1", "\"a\"">> /\ hist[2].handed = <<"\"a\"">>

====
